---- MODULE Spec2Model ----
(***************************************************************************)
(* A model of the Dari HTTP client (src/src/dari/client.py): construction  *)
(* of the client, the endpoint methods that map their arguments to a JSON  *)
(* body or a query mapping, the request dispatcher Dari._request, and the  *)
(* close / enter / exit lifecycle of the underlying requests.Session.      *)
(*                                                                         *)
(* A call is two steps, because the transport is the environment: the      *)
(* endpoint method assembles the request and hands it to the session       *)
(* (pc = "awaiting", the request is in flight), then the session either    *)
(* raises an exception or delivers a response, which the dispatcher        *)
(* classifies, and the endpoint method hands the caller what the           *)
(* dispatcher returned, or drops it (pc = "idle").                         *)
(***************************************************************************)
EXTENDS Integers, Sequences, FiniteSets, TLC

VARIABLES
    status,           \* "new" | "ready" | "failed": outcome of Dari(...)
    ctor_key,         \* the api_key argument handed to the constructor
    self,             \* the client's attributes (api_key, base_url, timeout, _default_headers)
    session,          \* the requests.Session: "none" | "open" | "closed"
    scope,            \* the with-block: "outside" | "inside" | "exited" (it ended, nothing was called since)
    scope_exc,        \* the exception that ended the with-block body
    propagated,       \* the exception that left the with statement
    pc,               \* "idle" | "awaiting"
    call,             \* the endpoint invocation being served
    inflight,         \* the request handed to session.request
    response,         \* the transport outcome of the last finished call
    result,           \* what _request returned or raised in the last finished call
    returned,         \* what the method the caller invoked returned or raised in that call
    requests,         \* session.request invocations made for the invocation in call, or the last finished one
    resumed           \* whether resume_workflow has been invoked on the client

vars == <<status, ctor_key, self, session, scope, scope_exc, propagated, pc,
          call, inflight, response, result, returned, requests, resumed>>

(***************************************************************************)
(* Python values. Every value carries its type, so that None, 0, "" and    *)
(* False stay distinct values that can be compared with one another.       *)
(***************************************************************************)
None == [t |-> "none"]
PStr(s) == [t |-> "str", v |-> s]
PInt(i) == [t |-> "int", v |-> i]
PBool(b) == [t |-> "bool", v |-> b]
PDict(d) == [t |-> "dict", v |-> d]
PList(l) == [t |-> "list", v |-> l]

\* The empty dict {}: a mapping with no keys.
EmptyDict == <<>>

\* bool(x) in Python, for the value types of the model.
Truthy(x) ==
    CASE x.t = "none" -> FALSE
      [] x.t = "str"  -> x.v # ""
      [] x.t = "int"  -> x.v # 0
      [] x.t = "bool" -> x.v
      [] x.t = "dict" -> DOMAIN x.v # {}
      [] x.t = "list" -> Len(x.v) > 0

\* str(x) in Python, for the value types an error body carries in the model.
PyStr(x) ==
    CASE x.t = "none" -> "None"
      [] x.t = "str"  -> x.v
      [] x.t = "int"  -> ToString(x.v)
      [] x.t = "bool" -> IF x.v THEN "True" ELSE "False"

(***************************************************************************)
(* Strings.                                                                *)
(***************************************************************************)
\* s.startswith(p)
StartsWith(s, p) == Len(s) >= Len(p) /\ SubSeq(s, 1, Len(p)) = p

\* p in s (substring test)
Contains(s, p) ==
    \E i \in 1..(Len(s) - Len(p) + 1) : SubSeq(s, i, i + Len(p) - 1) = p

\* s.rstrip("/")
RECURSIVE RStripSlash(_)
RStripSlash(s) ==
    IF Len(s) > 0 /\ SubSeq(s, Len(s), Len(s)) = "/"
    THEN RStripSlash(SubSeq(s, 1, Len(s) - 1))
    ELSE s

\* s.lower(), for ASCII letters.
UpperLetters == "ABCDEFGHIJKLMNOPQRSTUVWXYZ"
LowerLetters == "abcdefghijklmnopqrstuvwxyz"

\* The lower-case letter of every upper-case letter.
LowerOfLetter ==
    [c \in {SubSeq(UpperLetters, i, i) : i \in 1..Len(UpperLetters)} |->
        LET i == CHOOSE i \in 1..Len(UpperLetters) : SubSeq(UpperLetters, i, i) = c
        IN  SubSeq(LowerLetters, i, i)]

LowerChar(c) == IF c \in DOMAIN LowerOfLetter THEN LowerOfLetter[c] ELSE c

RECURSIVE Lower(_)
Lower(s) == IF s = "" THEN "" ELSE LowerChar(SubSeq(s, 1, 1)) \o Lower(SubSeq(s, 2, Len(s)))

(***************************************************************************)
(* dict operations.                                                        *)
(***************************************************************************)
\* d[k] = v
DictSet(d, k, v) == [x \in DOMAIN d \cup {k} |-> IF x = k THEN v ELSE d[x]]

\* d.pop(k, None)
DictPop(d, k) == [x \in DOMAIN d \ {k} |-> d[x]]

\* d.update(o)
DictUpdate(d, o) == [x \in DOMAIN d \cup DOMAIN o |-> IF x \in DOMAIN o THEN o[x] ELSE d[x]]

\* d.setdefault(k, v)
DictSetDefault(d, k, v) == IF k \in DOMAIN d THEN d ELSE DictSet(d, k, v)

\* headers.get(name, default) on the headers of a response, which requests
\* keeps in a CaseInsensitiveDict: the lookup ignores the case of the name.
HeaderGet(headers, name, default) ==
    IF \E k \in DOMAIN headers : Lower(k) = Lower(name)
    THEN headers[CHOOSE k \in DOMAIN headers : Lower(k) = Lower(name)]
    ELSE default

\* "if value is not None: payload[key] = value", the step every endpoint
\* method repeats for each of its optional parameters.
SetIfNotNoneTruthiness(payload, key, value) == IF Truthy(value) THEN DictSet(payload, key, value) ELSE payload
SetIfNotNone(payload, key, value) == IF value # None THEN DictSet(payload, key, value) ELSE payload

\* The same step applied to a tuple of <<key, value>> pairs, in order.
RECURSIVE SetAllIfNotNone(_, _)
SetAllIfNotNone(payload, pairs) ==
    IF pairs = <<>> THEN payload
    ELSE SetAllIfNotNone(SetIfNotNone(payload, Head(pairs)[1], Head(pairs)[2]), Tail(pairs))

(***************************************************************************)
(* Module constants.                                                       *)
(***************************************************************************)
DEFAULT_BASE_URL == "https://api.usedari.com"
DEFAULT_TIMEOUT == 30
RunActionTimeout == 120
Version == "0.1.0"

(***************************************************************************)
(* Dari.__init__                                                           *)
(***************************************************************************)
\* Attributes of an object whose constructor has not completed.
Unset == [t |-> "unset"]

\* self._default_headers as built by the constructor.
DefaultHeaders(api_key) ==
    ("X-API-Key" :> api_key) @@ ("User-Agent" :> ("dari-python/" \o Version)) @@ ("Accept" :> "application/json")

\* The attributes the constructor sets (lines 37-45), self._session apart.
ClientAttributes(api_key, base_url, timeout) ==
    [api_key         |-> api_key.v,
     base_url        |-> RStripSlash(base_url),
     timeout         |-> timeout,
     default_headers |-> DefaultHeaders(api_key.v)]

\* Dari(api_key, base_url=..., timeout=...): what the constructor raises, the
\* attributes it leaves on the object and the state of the session the
\* object holds ("none": no session was created). The api_key check of lines
\* 35-36 comes first, before requests.Session() at line 40.
InitClientNoneOnly(api_key, base_url, timeout) ==
    IF api_key = None
    THEN [raised |-> "ValueError", self |-> Unset, session |-> "none"]
    ELSE [raised  |-> "none",
          self    |-> ClientAttributes(api_key, base_url, timeout),
          session |-> "open"]
InitClient(api_key, base_url, timeout) ==
    IF ~Truthy(api_key)
    THEN [raised |-> "ValueError", self |-> Unset, session |-> "none"]
    ELSE [raised  |-> "none",
          self    |-> ClientAttributes(api_key, base_url, timeout),
          session |-> "open"]

(***************************************************************************)
(* Dari._request, first half: URL resolution and header assembly.          *)
(***************************************************************************)
\* Lines 390-393: an absolute URL is used verbatim, a path is appended to
\* the base URL.
ResolveUrlAlwaysJoin(base_url, path_or_url) == base_url \o path_or_url
ResolveUrl(base_url, path_or_url) ==
    IF StartsWith(path_or_url, "http://") \/ StartsWith(path_or_url, "https://")
    THEN path_or_url
    ELSE base_url \o path_or_url

\* Lines 394-400. headers and json are None or a PDict. The result holds the
\* header mapping sent with the request and the client's own default mapping
\* after the statements ran: dict(...) copies, so the pop, the update and
\* the setdefault act on the copy alone.
AssembleHeadersNoCopy(default_headers, headers, json, require_api_key) ==
    LET h1 == IF ~require_api_key THEN DictPop(default_headers, "X-API-Key") ELSE default_headers
        h2 == IF Truthy(headers) THEN DictUpdate(h1, headers.v) ELSE h1
        h3 == IF json # None THEN DictSetDefault(h2, "Content-Type", "application/json") ELSE h2
    IN  [request_headers |-> h3, default_headers |-> h3]
AssembleHeadersForceContentType(default_headers, headers, json, require_api_key) ==
    LET h1 == IF ~require_api_key THEN DictPop(default_headers, "X-API-Key") ELSE default_headers
        h2 == IF Truthy(headers) THEN DictUpdate(h1, headers.v) ELSE h1
        h3 == IF json # None THEN DictSet(h2, "Content-Type", "application/json") ELSE h2
    IN  [request_headers |-> h3, default_headers |-> default_headers]
AssembleHeaders(default_headers, headers, json, require_api_key) ==
    LET h0 == default_headers
        h1 == IF ~require_api_key THEN DictPop(h0, "X-API-Key") ELSE h0
        h2 == IF Truthy(headers) THEN DictUpdate(h1, headers.v) ELSE h1
        h3 == IF json # None THEN DictSetDefault(h2, "Content-Type", "application/json") ELSE h2
    IN  [request_headers |-> h3, default_headers |-> default_headers]

\* Lines 390-409: the arguments of session.request, and the client's
\* default header mapping afterwards. timeout is None or a PInt.
Prepare(me, method, path_or_url, json, params, headers, require_api_key, timeout) ==
    LET h == AssembleHeaders(me.default_headers, headers, json, require_api_key)
    IN  [req |-> [method  |-> method,
                  url     |-> ResolveUrl(me.base_url, path_or_url),
                  json    |-> json,
                  params  |-> params,
                  headers |-> h.request_headers,
                  timeout |-> IF timeout # None THEN timeout.v ELSE me.timeout],
         default_headers |-> h.default_headers]

(***************************************************************************)
(* Responses.                                                              *)
(***************************************************************************)
\* response.json(): ok is FALSE where json.loads raises ValueError. The
\* table lists the decoding of every body the model's transport delivers.
JsonLoads(text) ==
    CASE text = "" -> [ok |-> FALSE, value |-> None]
      [] text = "<html>Bad Gateway</html>" -> [ok |-> FALSE, value |-> None]
      [] text = "{\"detail\":\"session not found\"}" ->
            [ok |-> TRUE, value |-> PDict("detail" :> PStr("session not found"))]
      [] text = "{\"detail\":\"d\",\"error\":\"e\",\"message\":\"m\"}" ->
            [ok |-> TRUE, value |-> PDict(("detail" :> PStr("d")) @@ ("error" :> PStr("e")) @@ ("message" :> PStr("m")))]
      [] text = "{\"detail\":\"\",\"error\":\"quota exceeded\",\"message\":\"m\"}" ->
            [ok |-> TRUE, value |-> PDict(("detail" :> PStr("")) @@ ("error" :> PStr("quota exceeded")) @@ ("message" :> PStr("m")))]
      [] text = "{\"detail\":null,\"message\":\"try later\"}" ->
            [ok |-> TRUE, value |-> PDict(("detail" :> None) @@ ("message" :> PStr("try later")))]
      [] text = "{\"detail\":0,\"error\":false,\"message\":\"\"}" ->
            [ok |-> TRUE, value |-> PDict(("detail" :> PInt(0)) @@ ("error" :> PBool(FALSE)) @@ ("message" :> PStr("")))]
      [] text = "{\"error\":422}" ->
            [ok |-> TRUE, value |-> PDict("error" :> PInt(422))]
      [] text = "{\"session_id\":\"s1\",\"status\":\"active\"}" ->
            [ok |-> TRUE, value |-> PDict(("session_id" :> PStr("s1")) @@ ("status" :> PStr("active")))]
      [] text = "{}" -> [ok |-> TRUE, value |-> PDict(EmptyDict)]
      [] text = "[\"detail\"]" -> [ok |-> TRUE, value |-> PList(<<PStr("detail")>>)]
      [] text = "\"detail\"" -> [ok |-> TRUE, value |-> PStr("detail")]
      [] text = "null" -> [ok |-> TRUE, value |-> None]

\* The keys _build_error_message looks up, in the order of its for loop.
ErrorKeys == <<"detail", "error", "message">>

\* Lines 431-433: the for loop over the keys, from position i on. found is
\* FALSE when the loop ends without returning.
RECURSIVE FirstErrorValue(_, _, _)
FirstErrorValue(data, keys, i) ==
    IF i > Len(keys) THEN [found |-> FALSE, message |-> ""]
    ELSE IF keys[i] \in DOMAIN data /\ Truthy(data[keys[i]])
         THEN [found |-> TRUE, message |-> PyStr(data[keys[i]])]
         ELSE FirstErrorValue(data, keys, i + 1)

\* Dari._build_error_message (lines 424-434).
BuildErrorMessageReversed(resp) ==
    LET data == JsonLoads(resp.content)
        hit  == IF data.ok /\ data.value.t = "dict"
                THEN FirstErrorValue(data.value.v, <<"message", "error", "detail">>, 1)
                ELSE [found |-> FALSE, message |-> ""]
    IN  IF ~data.ok
        THEN "Dari request failed with status " \o ToString(resp.status_code) \o ": " \o resp.content
        ELSE IF hit.found THEN hit.message
        ELSE "Dari request failed with status " \o ToString(resp.status_code)
BuildErrorMessage(resp) ==
    LET data == JsonLoads(resp.content)
        hit  == IF data.ok /\ data.value.t = "dict"
                THEN FirstErrorValue(data.value.v, ErrorKeys, 1)
                ELSE [found |-> FALSE, message |-> ""]
    IN  IF ~data.ok
        THEN "Dari request failed with status " \o ToString(resp.status_code) \o ": " \o resp.content
        ELSE IF hit.found THEN hit.message
        ELSE "Dari request failed with status " \o ToString(resp.status_code)

(***************************************************************************)
(* Dari._request, second half: classification of the transport outcome.    *)
(* An outcome is an exception raised by session.request                    *)
(* ([kind |-> "exception", exc, message], exc the class that line 410      *)
(* tests: "RequestException" for requests.RequestException and its         *)
(* subclasses, the name of the class for any other), or a response         *)
(* ([kind |-> "response", status_code, headers, content]).                 *)
(***************************************************************************)
NoResult == [kind |-> "none"]
NoResponse == [kind |-> "none"]

\* raise DariError(message, status_code=..., response=...) (lines 15-21):
\* status_code is None or a PInt, resp is None or the response. json_calls
\* counts the response.json() calls the dispatcher made on the way.
DariError(message, status_code, resp, json_calls) ==
    [kind |-> "raise", exc |-> "DariError", message |-> message, status_code |-> status_code,
     response |-> resp, json_calls |-> json_calls]

\* An exception of session.request that no except clause catches leaves
\* _request as it is.
Propagate(out) == [kind |-> "raise", exc |-> out.exc, message |-> out.message, json_calls |-> 0]

\* return value
Return(value, json_calls) == [kind |-> "return", value |-> value, json_calls |-> json_calls]

InvalidJsonMessage == "Invalid JSON received from Dari"

\* Lines 416-422: the branch on the response's Content-Type.
DecodeBodyTextOnFailure(resp) ==
    IF Contains(HeaderGet(resp.headers, "Content-Type", ""), "application/json")
    THEN IF JsonLoads(resp.content).ok
         THEN Return(JsonLoads(resp.content).value, 1)
         ELSE Return(PStr(resp.content), 1)
    ELSE Return(PStr(resp.content), 0)
DecodeBody(resp) ==
    IF Contains(HeaderGet(resp.headers, "Content-Type", ""), "application/json")
    THEN IF JsonLoads(resp.content).ok
         THEN Return(JsonLoads(resp.content).value, 1)
         ELSE DariError(InvalidJsonMessage, PInt(resp.status_code), resp, 1)
    ELSE Return(PStr(resp.content), 0)

\* Lines 401-422: what _request returns or raises for a transport outcome.
\* _build_error_message calls response.json() once.
DispatchDecodeBeforeEmpty(out) ==
    IF out.kind = "exception"
    THEN IF out.exc = "RequestException" THEN DariError(out.message, None, None, 0) ELSE Propagate(out)
    ELSE IF out.status_code >= 400
         THEN DariError(BuildErrorMessage(out), PInt(out.status_code), out, 1)
    ELSE IF Contains(HeaderGet(out.headers, "Content-Type", ""), "application/json")
         THEN DecodeBody(out)
    ELSE IF out.status_code = 204 \/ out.content = "" THEN Return(None, 0)
    ELSE DecodeBody(out)
Dispatch(out) ==
    IF out.kind = "exception"
    THEN IF out.exc = "RequestException" THEN DariError(out.message, None, None, 0) ELSE Propagate(out)
    ELSE IF out.status_code >= 400
         THEN DariError(BuildErrorMessage(out), PInt(out.status_code), out, 1)
    ELSE IF out.status_code = 204 \/ out.content = "" THEN Return(None, 0)
    ELSE DecodeBody(out)

(***************************************************************************)
(* The transport: what session.request can deliver.                        *)
(***************************************************************************)
StatusCodes == {200, 204, 404}

\* The header names are spelled as the server sent them.
ResponseHeaders ==
    { EmptyDict,
      "Content-Type" :> "application/json; charset=utf-8",
      "content-type" :> "application/json",
      "Content-Type" :> "text/plain" }

Bodies ==
    { "",
      "<html>Bad Gateway</html>",
      "{\"detail\":\"session not found\"}",
      "{\"detail\":\"d\",\"error\":\"e\",\"message\":\"m\"}",
      "{\"detail\":\"\",\"error\":\"quota exceeded\",\"message\":\"m\"}",
      "{\"detail\":null,\"message\":\"try later\"}",
      "{\"detail\":0,\"error\":false,\"message\":\"\"}",
      "{\"error\":422}",
      "{\"session_id\":\"s1\",\"status\":\"active\"}",
      "{}",
      "[\"detail\"]",
      "\"detail\"",
      "null" }

Responses ==
    { [kind |-> "response", status_code |-> s, headers |-> h, content |-> b] :
        s \in StatusCodes, h \in ResponseHeaders, b \in Bodies }

\* The RequestException subclasses the transport raises, by their str(exc).
TransportErrors ==
    { [kind |-> "exception", exc |-> "RequestException", message |-> m] :
        m \in {"Connection refused", "Read timed out."} }

\* An exception of another class that a session lets through.
OtherErrors == { [kind |-> "exception", exc |-> "OSError", message |-> "[Errno 111] Connection refused"] }

\* What requests raises, before it sends anything, for a timeout that is
\* not above zero: the message names the value.
TimeoutValueError(timeout) ==
    [kind |-> "exception", exc |-> "ValueError",
     message |-> "Attempted to set connect timeout to " \o ToString(timeout)
                 \o ", but the timeout cannot be set to a value less than or equal to 0."]

Outcomes == Responses \cup TransportErrors \cup OtherErrors

\* The outcomes of session.request for the request req.
OutcomesOf(req) == IF req.timeout <= 0 THEN {TimeoutValueError(req.timeout)} ELSE Outcomes

(***************************************************************************)
(* Arguments the callers pass.                                             *)
(***************************************************************************)
\* At most MaxSupplied of start_workflow's ten optional arguments are
\* supplied in one call, or all ten.
MaxSupplied == 1

\* The constructor calls: <<api_key, base_url, timeout>>.
Constructions ==
    { <<None, DEFAULT_BASE_URL, DEFAULT_TIMEOUT>>,
      <<PStr(""), DEFAULT_BASE_URL, DEFAULT_TIMEOUT>>,
      <<PStr("key-1"), DEFAULT_BASE_URL, DEFAULT_TIMEOUT>>,
      <<PStr("key-2"), "http://localhost:8000/", DEFAULT_TIMEOUT>>,
      <<PStr("key-1"), DEFAULT_BASE_URL, 0>>,
      <<PStr("key-1"), DEFAULT_BASE_URL, -1>> }
ResumeUrls == {"https://hooks.usedari.com/resume/r1", "http://localhost:9000/resume/r1", "/resume/r1"}

Opt(values) == {None} \cup values

ScreenConfig == PDict(("width" :> PInt(1280)) @@ ("height" :> PInt(720)))
Mappings == {PDict(EmptyDict), PDict("test" :> PStr("x"))}

\* A mapping from the keys to the values, as a tuple of <<key, value>> pairs
\* in the order of keys.
Pairs(keys, values) == [i \in 1..Len(keys) |-> <<keys[i], values[keys[i]]>>]

\* The keys of a tuple of keys.
KeySet(keys) == {keys[i] : i \in 1..Len(keys)}

\* The keys of a JSON body or query mapping handed to the transport.
SentKeys(m) == IF m = None THEN {} ELSE DOMAIN m.v

(***************************************************************************)
(* State.                                                                  *)
(***************************************************************************)
NoCall == [name |-> "none"]
NoRequest == [method |-> "none"]

Init ==
    /\ status = "new"
    /\ ctor_key = None
    /\ self = Unset
    /\ session = "none"
    /\ scope = "outside"
    /\ scope_exc = "none"
    /\ propagated = "none"
    /\ pc = "idle"
    /\ call = NoCall
    /\ inflight = NoRequest
    /\ response = NoResponse
    /\ result = NoResult
    /\ returned = NoResult
    /\ requests = 0
    /\ resumed = FALSE

\* client = Dari(api_key, base_url=base_url, timeout=timeout)
Construct ==
    /\ status = "new"
    /\ \E args \in Constructions :
          LET c == InitClient(args[1], args[2], args[3])
          IN  /\ ctor_key' = args[1]
              /\ status' = IF c.raised = "none" THEN "ready" ELSE "failed"
              /\ self' = c.self
              /\ session' = c.session
    /\ UNCHANGED <<scope, scope_exc, propagated, pc, call, inflight, response, result, returned, requests,
                   resumed>>

\* self._request(method, path_or_url, json=..., params=..., headers=...,
\* require_api_key=..., timeout=...), up to and including the call of
\* session.request (lines 379-409). Nothing in it looks at whether the
\* client was closed: the session is used as it is. required and optional
\* are the caller's arguments by the key each one is sent under, where is
\* "json", "params" or "none"; returns tells whether the method called hands
\* the caller what _request returns ("return self._request(...)") or drops
\* it ("self._request(...)").
InvokeWith(name, where, required, optional, method, path_or_url, json, params, headers, require_api_key, timeout, returns) ==
    /\ status = "ready"
    /\ pc = "idle"
    /\ LET p == Prepare(self, method, path_or_url, json, params, headers, require_api_key, timeout)
       IN  /\ inflight' = p.req
           /\ self' = [self EXCEPT !.default_headers = p.default_headers]
    /\ call' = [name |-> name, where |-> where, required |-> required, optional |-> optional,
                path_or_url |-> path_or_url, headers |-> headers, require_api_key |-> require_api_key,
                returns |-> returns]
    /\ pc' = "awaiting"
    /\ requests' = 1
    /\ resumed' = (resumed \/ name = "resume_workflow")
    /\ response' = NoResponse
    /\ result' = NoResult
    /\ returned' = NoResult
    /\ scope' = IF scope = "exited" THEN "outside" ELSE scope
    /\ scope_exc' = "none"
    /\ propagated' = "none"
    /\ UNCHANGED <<status, ctor_key, session>>

\* return self._request(...) as the endpoint methods call it: none of them
\* passes header overrides.
Invoke(name, where, required, optional, method, path_or_url, json, params, require_api_key, timeout) ==
    InvokeWith(name, where, required, optional, method, path_or_url, json, params, None, require_api_key, timeout,
               TRUE)

\* An endpoint method that sends neither a body nor a query.
InvokePlain(name, method, path) ==
    Invoke(name, "none", EmptyDict, EmptyDict, method, path, None, None, TRUE, None)

\* An endpoint method that sends neither a body nor a query and has no
\* return statement: the value of self._request(...) is dropped.
InvokeNoReturn(name, method, path) ==
    InvokeWith(name, "none", EmptyDict, EmptyDict, method, path, None, None, None, TRUE, None, FALSE)

\* An endpoint method that sends a JSON body: payload starts as the required
\* keys, then each optional argument is added if it is not None.
InvokeJson(name, method, path, required, keys, optional, timeout) ==
    Invoke(name, "json", required, optional, method, path,
           PDict(SetAllIfNotNone(required, Pairs(keys, optional))), None, TRUE, timeout)

(***************************************************************************)
(* Endpoint methods.                                                       *)
(***************************************************************************)
WorkflowIds == {"wf-1"}
ExecutionIds == {"ex-1"}
SessionIds == {"s1"}

StartWorkflowKeys ==
    <<"timeout_minutes", "should_update_cache", "allow_public_live_view", "browser_profile_id",
      "use_proxy", "proxy_city", "proxy_server", "proxy_server_username", "proxy_server_password",
      "user_agent">>

\* The value each optional argument of start_workflow has when supplied.
StartWorkflowValues ==
    ("timeout_minutes" :> PInt(0)) @@ ("should_update_cache" :> PBool(FALSE))
    @@ ("allow_public_live_view" :> PBool(TRUE)) @@ ("browser_profile_id" :> PStr("bp-1"))
    @@ ("use_proxy" :> PBool(FALSE)) @@ ("proxy_city" :> PStr("London"))
    @@ ("proxy_server" :> PStr("http://proxy.example.com:8080")) @@ ("proxy_server_username" :> PStr("u"))
    @@ ("proxy_server_password" :> PStr("")) @@ ("user_agent" :> PStr("Mozilla/5.0"))

start_workflow ==
    /\ pc = "idle"
    /\ \E workflow_id \in WorkflowIds, input_variables \in {PDict("query" :> PStr("x"))}, supplied \in SUBSET KeySet(StartWorkflowKeys) :
           /\ Cardinality(supplied) <= MaxSupplied \/ supplied = KeySet(StartWorkflowKeys)
           /\ InvokeJson("start_workflow", "POST", "/public/workflows/start/" \o workflow_id,
                         "input_variables" :> input_variables, StartWorkflowKeys,
                         [k \in KeySet(StartWorkflowKeys) |-> IF k \in supplied THEN StartWorkflowValues[k] ELSE None],
                         None)

list_workflow_executions ==
    /\ pc = "idle"
    /\ \E workflow_id \in WorkflowIds :
           InvokePlain("list_workflow_executions", "GET", "/public/workflows/" \o workflow_id)

get_execution_details ==
    /\ pc = "idle"
    /\ \E workflow_id \in WorkflowIds, execution_id \in ExecutionIds :
           InvokePlain("get_execution_details", "GET",
                       "/public/workflows/" \o workflow_id \o "/executions/" \o execution_id)

resume_workflow ==
    /\ pc = "idle"
    /\ \E resume_url \in ResumeUrls, variables \in Mappings :
           Invoke("resume_workflow", "json", "variables" :> variables, EmptyDict, "POST", resume_url,
                  PDict("variables" :> variables), None, FALSE, None)

list_credentials ==
    /\ pc = "idle"
    /\ InvokePlain("list_credentials", "GET", "/public/credentials")

CredentialKeys == <<"username_or_email", "password", "totp_secret", "gmail_oauth_account_id", "phone_number_id">>

create_credential ==
    /\ pc = "idle"
    /\ \E username_or_email \in Opt({PStr("a@example.com")}), password \in Opt({PStr("")}),
          totp_secret \in Opt({PStr("JBSWY3DP")}), gmail_oauth_account_id \in Opt({PStr("g-1")}),
          phone_number_id \in Opt({PStr("p-1")}) :
           InvokeJson("create_credential", "POST", "/public/credentials",
                      "service_name" :> PStr("github"), CredentialKeys,
                      ("username_or_email" :> username_or_email) @@ ("password" :> password)
                      @@ ("totp_secret" :> totp_secret) @@ ("gmail_oauth_account_id" :> gmail_oauth_account_id)
                      @@ ("phone_number_id" :> phone_number_id),
                      None)

list_connected_accounts ==
    /\ pc = "idle"
    /\ InvokePlain("list_connected_accounts", "GET", "/public/connected-accounts")

list_phone_numbers ==
    /\ pc = "idle"
    /\ InvokePlain("list_phone_numbers", "GET", "/public/phone-numbers")

purchase_phone_number ==
    /\ pc = "idle"
    /\ \E label \in {PStr("support"), PStr("")} :
           InvokeJson("purchase_phone_number", "POST", "/public/phone-numbers", "label" :> label, <<>>, EmptyDict, None)

create_browser_profile ==
    /\ pc = "idle"
    /\ \E name \in {PStr("profile-1")}, provider \in Opt({PStr("kernel"), PStr("")}) :
           InvokeJson("create_browser_profile", "POST", "/public/browser-profiles",
                      "name" :> name, <<"provider">>, "provider" :> provider, None)

list_browser_profiles ==
    /\ pc = "idle"
    /\ InvokePlain("list_browser_profiles", "GET", "/public/browser-profiles")

SingleActionKeys == <<"session_id", "id", "variables", "screen_config", "set_cache">>

run_single_action ==
    /\ pc = "idle"
    /\ \E session_id \in Opt({PStr(s) : s \in SessionIds}), id \in Opt({PStr("step-1")}),
          variables \in Opt({PDict(EmptyDict)}), screen_config \in Opt({ScreenConfig}),
          set_cache \in Opt({PBool(FALSE)}) :
           InvokeJson("run_single_action", "POST", "/public/single-actions/run-action",
                      "action" :> PStr("What is on the screen?"), SingleActionKeys,
                      ("session_id" :> session_id) @@ ("id" :> id) @@ ("variables" :> variables)
                      @@ ("screen_config" :> screen_config) @@ ("set_cache" :> set_cache),
                      PInt(RunActionTimeout))

CreateSessionKeys == <<"cdp_url", "screen_config", "ttl", "metadata">>

create_session ==
    /\ pc = "idle"
    /\ \E cdp_url \in Opt({PStr("ws://browser.example.com/cdp")}), screen_config \in Opt({ScreenConfig}),
          ttl \in Opt({PInt(0), PInt(3600)}), metadata \in Opt(Mappings) :
           InvokeJson("create_session", "POST", "/public/sessions", EmptyDict, CreateSessionKeys,
                      ("cdp_url" :> cdp_url) @@ ("screen_config" :> screen_config) @@ ("ttl" :> ttl)
                      @@ ("metadata" :> metadata),
                      None)

get_session ==
    /\ pc = "idle"
    /\ \E session_id \in SessionIds : InvokePlain("get_session", "GET", "/public/sessions/" \o session_id)

ListSessionsKeys == <<"status_filter", "limit", "offset">>

\* Line 317: params if params else None
list_sessions ==
    /\ pc = "idle"
    /\ \E status_filter \in Opt({PStr("active")}), limit \in Opt({PInt(0), PInt(10)}), offset \in Opt({PInt(0)}) :
           LET optional == ("status_filter" :> status_filter) @@ ("limit" :> limit) @@ ("offset" :> offset)
               params   == SetAllIfNotNone(EmptyDict, Pairs(ListSessionsKeys, optional))
           IN  Invoke("list_sessions", "params", EmptyDict, optional, "GET", "/public/sessions", None,
                      IF Truthy(PDict(params)) THEN PDict(params) ELSE None, TRUE, None)

UpdateSessionKeys == <<"ttl", "metadata">>

update_session ==
    /\ pc = "idle"
    /\ \E session_id \in SessionIds, ttl \in Opt({PInt(7200)}), metadata \in Opt(Mappings) :
           InvokeJson("update_session", "PATCH", "/public/sessions/" \o session_id, EmptyDict, UpdateSessionKeys,
                      ("ttl" :> ttl) @@ ("metadata" :> metadata), None)

\* Line 351: the call of _request is a statement, not a return.
terminate_session ==
    /\ pc = "idle"
    /\ \E session_id \in SessionIds :
           InvokeNoReturn("terminate_session", "POST", "/public/sessions/" \o session_id \o "/terminate")

\* Line 360: the same.
delete_session ==
    /\ pc = "idle"
    /\ \E session_id \in SessionIds : InvokeNoReturn("delete_session", "DELETE", "/public/sessions/" \o session_id)

(***************************************************************************)
(* The dispatcher called with header overrides.                            *)
(***************************************************************************)
\* The header overrides a caller passes to _request: none, an empty mapping,
\* and mappings that name defaults, Content-Type, or a header of their own.
HeaderOverrides ==
    { None,
      PDict(EmptyDict),
      PDict("Content-Type" :> "text/plain"),
      PDict(("X-API-Key" :> "other-key") @@ ("Accept" :> "*/*")),
      PDict(("User-Agent" :> "custom-agent") @@ ("X-Request-Id" :> "r-1")),
      PDict(("X-API-Key" :> "other-key") @@ ("Content-Type" :> "application/xml")) }

\* The JSON bodies passed with them: none, an empty mapping, a mapping.
JsonBodies == {None, PDict(EmptyDict), PDict("test" :> PStr("x"))}

\* client._request("POST", "/public/sessions", json=..., headers=...,
\* require_api_key=...)
request ==
    /\ pc = "idle"
    /\ \E json \in JsonBodies, headers \in HeaderOverrides, require_api_key \in BOOLEAN :
           InvokeWith("_request", IF json = None THEN "none" ELSE "json",
                      IF json = None THEN EmptyDict ELSE json.v, EmptyDict,
                      "POST", "/public/sessions", json, None, headers, require_api_key, None, TRUE)

(***************************************************************************)
(* The transport answers and the dispatcher finishes the call.             *)
(***************************************************************************)
\* What the method that called _request hands its caller: an exception
\* passes through it, a value is returned, or dropped for None where the
\* method has no return statement.
MethodResult(returns, r) ==
    IF r.kind = "return" /\ ~returns THEN Return(None, r.json_calls) ELSE r

\* Lines 401-422: session.request raises or returns a response, _request
\* returns or raises accordingly, and so does the method that called it. The
\* request is not issued a second time.
Respond ==
    /\ pc = "awaiting"
    /\ \E out \in OutcomesOf(inflight) :
          LET r == Dispatch(out)
          IN  /\ response' = out
              /\ result' = r
              /\ returned' = MethodResult(call.returns, r)
    /\ pc' = "idle"
    /\ call' = NoCall
    /\ inflight' = NoRequest
    /\ UNCHANGED <<status, ctor_key, self, session, scope, scope_exc, propagated, requests, resumed>>

(***************************************************************************)
(* Session helpers.                                                        *)
(***************************************************************************)
\* Dari.close (lines 365-368): self._session.close()
Close(s) == "closed"

\* client.close(), at any time: inside a with block too, and again on a
\* closed client.
close ==
    /\ status = "ready"
    /\ pc = "idle"
    /\ session' = Close(session)
    /\ UNCHANGED <<status, ctor_key, self, scope, scope_exc, propagated, pc, call, inflight, response, result,
                   returned, requests, resumed>>

\* Dari.__enter__ (lines 370-371): with client: ..., also on a client that
\* was closed or has left a with block before. __enter__ returns self and
\* changes nothing.
Enter ==
    /\ status = "ready"
    /\ pc = "idle"
    /\ scope # "inside"
    /\ scope' = "inside"
    /\ scope_exc' = "none"
    /\ propagated' = "none"
    /\ UNCHANGED <<status, ctor_key, self, session, pc, call, inflight, response, result, returned, requests,
                   resumed>>

\* Dari.__exit__ (lines 373-374) for a with-block body that ended with the
\* exception exc_type ("none": it completed): the session afterwards, and
\* whether the return value tells Python to suppress the exception. The
\* method returns None.
ExitCloseOnSuccessOnly(exc_type, s) == [session |-> IF exc_type = "none" THEN Close(s) ELSE s, suppress |-> FALSE]
Exit(exc_type, s) == [session |-> Close(s), suppress |-> FALSE]

\* The exceptions that can end the body of the with block after a call that
\* ended in last: none, the exception that call raised (a DariError or one
\* that passed through _request), or one raised by the caller's own code.
ScopeExits(last) == {"none", "RuntimeError"} \cup (IF last.kind = "raise" THEN {last.exc} ELSE {})

\* The with statement ends: __exit__ runs, then the exception, if any and
\* not suppressed, propagates to the caller.
ExitScope ==
    /\ scope = "inside"
    /\ pc = "idle"
    /\ \E exc_type \in ScopeExits(returned) :
          /\ scope_exc' = exc_type
          /\ session' = Exit(exc_type, session).session
          /\ propagated' = IF Exit(exc_type, session).suppress THEN "none" ELSE exc_type
    /\ scope' = "exited"
    /\ UNCHANGED <<status, ctor_key, self, pc, call, inflight, response, result, returned, requests, resumed>>

\* Any endpoint method is invoked.
AnyEndpoint ==
    \/ start_workflow
    \/ list_workflow_executions
    \/ get_execution_details
    \/ resume_workflow
    \/ list_credentials
    \/ create_credential
    \/ list_connected_accounts
    \/ list_phone_numbers
    \/ purchase_phone_number
    \/ create_browser_profile
    \/ list_browser_profiles
    \/ run_single_action
    \/ create_session
    \/ get_session
    \/ list_sessions
    \/ update_session
    \/ terminate_session
    \/ delete_session

Next ==
    \/ Construct
    \/ AnyEndpoint
    \/ request
    \/ Respond
    \/ close
    \/ Enter
    \/ ExitScope

Spec == Init /\ [][Next]_vars

(***************************************************************************)
(* Properties of the endpoint methods.                                     *)
(***************************************************************************)
\* The mapping (JSON body or query) an invocation sends its arguments in.
SentMapping == IF call.where = "params" THEN inflight.params ELSE inflight.json

\* The optional arguments the caller supplied (did not leave as None).
Supplied == {k \in DOMAIN call.optional : call.optional[k] # None}

\* C1: for every endpoint method and every combination of supplied and
\* omitted optional arguments, a key is in the transmitted JSON body or query
\* mapping if and only if its argument was supplied (is not None): the keys
\* sent are exactly the required ones and the supplied ones, each with the
\* value given, never None. list_sessions() with nothing supplied passes no
\* query mapping at all, and create_session(ttl=3600, metadata={...}) sends a
\* body with exactly the keys ttl and metadata.
C1_OmittedOptionalNeverSent ==
    pc = "awaiting" =>
        /\ \A k \in DOMAIN call.optional : (k \in SentKeys(SentMapping)) <=> (call.optional[k] # None)
        /\ SentKeys(SentMapping) = DOMAIN call.required \cup Supplied
        /\ \A k \in SentKeys(SentMapping) :
              /\ SentMapping.v[k] # None
              /\ SentMapping.v[k] = IF k \in DOMAIN call.required THEN call.required[k] ELSE call.optional[k]
        /\ call.where # "json" => inflight.json = None
        /\ call.where # "params" => inflight.params = None
        /\ (call.name = "list_sessions" /\ Supplied = {}) => inflight.params = None
        /\ (call.name = "create_session" /\ Supplied = {"ttl", "metadata"}) =>
              DOMAIN inflight.json.v = {"ttl", "metadata"}

\* create_session(ttl=3600, metadata={"test": "x"}) is in flight with a body
\* of exactly the two keys.
C1_Witness ==
    /\ pc = "awaiting"
    /\ call.name = "create_session"
    /\ call.optional["ttl"] = PInt(3600)
    /\ call.optional["metadata"] = PDict("test" :> PStr("x"))
    /\ call.optional["cdp_url"] = None
    /\ call.optional["screen_config"] = None
    /\ inflight.json = PDict(("ttl" :> PInt(3600)) @@ ("metadata" :> PDict("test" :> PStr("x"))))

(***************************************************************************)
(* Properties of the dispatcher's classification.                          *)
(***************************************************************************)
\* A call has finished on a response (not on a transport exception).
Answered == pc = "idle" /\ response.kind = "response"

\* The generic status-coded message.
GenericMessage(status_code) == "Dari request failed with status " \o ToString(status_code)

\* The response body decodes to a JSON object.
IsJsonObject(resp) == JsonLoads(resp.content).ok /\ JsonLoads(resp.content).value.t = "dict"

\* key is present in the decoded object d with a non-empty value.
NonEmptyAt(d, key) == key \in DOMAIN d /\ Truthy(d[key])

\* The first non-empty value among detail, error, message of the decoded
\* object d, as a string; "" when there is none.
FirstNonEmpty(d) ==
    IF NonEmptyAt(d, "detail") THEN PyStr(d["detail"])
    ELSE IF NonEmptyAt(d, "error") THEN PyStr(d["error"])
    ELSE IF NonEmptyAt(d, "message") THEN PyStr(d["message"])
    ELSE ""

HasNonEmpty(d) == NonEmptyAt(d, "detail") \/ NonEmptyAt(d, "error") \/ NonEmptyAt(d, "message")

\* C2, as claimed: for every response with status >= 400 the DariError's
\* message is the first non-empty value among detail, error, message of the
\* decoded JSON body, and the generic status-coded message when the body is
\* not JSON or has none of those keys non-empty. Refuted by a body that is
\* not JSON.
C2_AsClaimed ==
    (Answered /\ response.status_code >= 400) =>
        /\ result.kind = "raise"
        /\ result.status_code = PInt(response.status_code)
        /\ result.message =
              IF IsJsonObject(response) /\ HasNonEmpty(JsonLoads(response.content).value.v)
              THEN FirstNonEmpty(JsonLoads(response.content).value.v)
              ELSE GenericMessage(response.status_code)

\* C2, amended: for every response with status >= 400 the DariError carries
\* the status code, and its message is the first non-empty value among
\* detail, error, message of the decoded JSON object, in that order; the
\* generic status-coded message when the body is JSON but not an object
\* with one of those keys non-empty; and the generic message followed by
\* ": " and the raw body text when the body is not JSON.
C2_ErrorMessage ==
    (Answered /\ response.status_code >= 400) =>
        /\ result.kind = "raise"
        /\ result.status_code = PInt(response.status_code)
        /\ result.message =
              IF ~JsonLoads(response.content).ok
              THEN GenericMessage(response.status_code) \o ": " \o response.content
              ELSE IF IsJsonObject(response) /\ HasNonEmpty(JsonLoads(response.content).value.v)
              THEN FirstNonEmpty(JsonLoads(response.content).value.v)
              ELSE GenericMessage(response.status_code)

\* A 404 whose body is not JSON has been turned into a DariError whose
\* message ends with the body text.
C2_Witness ==
    /\ Answered
    /\ response.status_code = 404
    /\ response.content = "<html>Bad Gateway</html>"
    /\ result.kind = "raise"
    /\ result.message = "Dari request failed with status 404: <html>Bad Gateway</html>"

\* C3, as claimed: for any response with status 204 or with an empty body the
\* dispatcher returns None, whatever the Content-Type, without decoding JSON
\* and without raising. Refuted by a response with status >= 400 and an
\* empty body.
C3_AsClaimed ==
    (Answered /\ (response.status_code = 204 \/ response.content = "")) => result = Return(None, 0)

\* C3, amended: for any response with status below 400 that has status 204
\* or an empty body, the dispatcher returns None, whatever the Content-Type,
\* without decoding JSON and without raising.
C3_NoContent ==
    (Answered /\ response.status_code < 400 /\ (response.status_code = 204 \/ response.content = "")) =>
        result = Return(None, 0)

\* A 200 with a JSON Content-Type and an empty body returned None.
C3_Witness ==
    /\ Answered
    /\ response.status_code = 200
    /\ response.content = ""
    /\ response.headers = ("Content-Type" :> "application/json; charset=utf-8")
    /\ result = Return(None, 0)

\* The response declares JSON in its Content-Type header, however the
\* header's name is capitalised.
DeclaresJson(resp) ==
    \E k \in DOMAIN resp.headers : Lower(k) = "content-type" /\ Contains(resp.headers[k], "application/json")

\* The response declares JSON and carries a non-empty body that does not parse.
MalformedJson(resp) ==
    /\ DeclaresJson(resp)
    /\ resp.content # ""
    /\ ~JsonLoads(resp.content).ok

\* C4, as claimed: for any response whose Content-Type contains
\* application/json and whose non-empty body does not parse as JSON, the call
\* raises the "Invalid JSON received" DariError with the response's status
\* code and the raw response. Refuted by such a response with status >= 400
\* and by one with status 204.
C4_AsClaimed ==
    (Answered /\ MalformedJson(response)) =>
        /\ result.kind = "raise"
        /\ result.message = InvalidJsonMessage
        /\ result.status_code = PInt(response.status_code)
        /\ result.response = response

\* C4, amended: for any response with a status below 400 other than 204
\* whose Content-Type contains application/json and whose non-empty body does
\* not parse as JSON, the call raises the "Invalid JSON received" DariError
\* with the response's status code and the raw response; it never returns
\* the raw text.
C4_InvalidJson ==
    (Answered /\ MalformedJson(response) /\ response.status_code < 400 /\ response.status_code # 204) =>
        /\ result.kind = "raise"
        /\ result.exc = "DariError"
        /\ result.message = InvalidJsonMessage
        /\ result.status_code = PInt(response.status_code)
        /\ result.response = response

\* A 200 declared as JSON with an HTML body raised the decode error.
C4_Witness ==
    /\ Answered
    /\ response.status_code = 200
    /\ MalformedJson(response)
    /\ result.kind = "raise"
    /\ result.message = InvalidJsonMessage
    /\ result.status_code = PInt(200)

(***************************************************************************)
(* Properties of the request that is handed to the transport.              *)
(***************************************************************************)
\* s is an absolute URL.
IsAbsolute(s) == StartsWith(s, "http://") \/ StartsWith(s, "https://")

\* C5: for every resume_workflow(resume_url, variables) with an absolute
\* resume_url, the request handed to the transport has no X-API-Key header
\* and its URL is exactly resume_url, whatever the client's base URL.
C5_ResumeUnauthenticatedVerbatim ==
    (pc = "awaiting" /\ call.name = "resume_workflow" /\ IsAbsolute(call.path_or_url)) =>
        /\ "X-API-Key" \notin DOMAIN inflight.headers
        /\ inflight.url = call.path_or_url

\* A resume_workflow call with an absolute URL is in flight on a client
\* configured with another base URL.
C5_Witness ==
    /\ pc = "awaiting"
    /\ call.name = "resume_workflow"
    /\ call.path_or_url = "https://hooks.usedari.com/resume/r1"
    /\ self.base_url = "http://localhost:8000"
    /\ inflight.url = "https://hooks.usedari.com/resume/r1"
    /\ "X-API-Key" \notin DOMAIN inflight.headers

\* C6: after any sequence of endpoint calls, resume_workflow calls included,
\* the client's default header mapping equals its value at construction, and
\* every request issued by an endpoint method other than resume_workflow
\* (so not one of a direct _request call with header overrides) carries the
\* X-API-Key header with the key given at construction.
C6_ApiKeyOnEveryOtherRequest ==
    status = "ready" =>
        /\ self.default_headers = DefaultHeaders(ctor_key.v)
        /\ (pc = "awaiting" /\ call.name \notin {"resume_workflow", "_request"}) =>
              /\ "X-API-Key" \in DOMAIN inflight.headers
              /\ inflight.headers["X-API-Key"] = ctor_key.v

\* A call of another endpoint method is in flight, with the key, on a client
\* that served a resume_workflow call before.
C6_Witness ==
    /\ pc = "awaiting"
    /\ resumed
    /\ call.name = "get_session"
    /\ ctor_key = PStr("key-2")
    /\ "X-API-Key" \in DOMAIN inflight.headers
    /\ inflight.headers["X-API-Key"] = "key-2"
    /\ self.default_headers = DefaultHeaders("key-2")

(***************************************************************************)
(* Properties of the client's lifecycle.                                   *)
(***************************************************************************)
\* C7: constructing a client with an empty or None api_key fails at once
\* with a configuration error, before any session is created: the object
\* gets no attributes, no request is ever handed to a transport, and no
\* method of the client can be used.
C7_EmptyKeyFailsAtConstruction ==
    (status # "new" /\ ~Truthy(ctor_key)) =>
        /\ status = "failed"
        /\ self = Unset
        /\ session = "none"
        /\ pc = "idle"
        /\ inflight = NoRequest
        /\ requests = 0
        /\ ~ENABLED (AnyEndpoint \/ request \/ Enter \/ close)

\* The constructor was given the empty string and raised.
C7_Witness ==
    /\ status = "failed"
    /\ ctor_key = PStr("")
    /\ session = "none"

\* C8: when the client is used as a context manager, the session is closed
\* on every exit of the with block, by normal completion and by an exception
\* raised inside it (a DariError of an endpoint call included), and the
\* exception then propagates to the caller: __exit__ does not suppress it.
C8_ClosedOnEveryExit ==
    scope = "exited" =>
        /\ session = "closed"
        /\ propagated = scope_exc

\* The with block was left by the DariError of an endpoint call: the session
\* is closed and the error propagated.
C8_Witness ==
    /\ scope = "exited"
    /\ scope_exc = "DariError"
    /\ returned.kind = "raise"
    /\ returned.exc = "DariError"
    /\ session = "closed"
    /\ propagated = "DariError"

(***************************************************************************)
(* Properties of the dispatcher's outcome.                                 *)
(***************************************************************************)
\* The call has finished, on a response or on a transport exception.
Finished == pc = "idle" /\ response # NoResponse

\* The transport outcome is one of the three failure kinds.
IsFailure(out) ==
    IF out.kind = "exception" THEN TRUE
    ELSE \/ out.status_code >= 400
         \/ out.status_code # 204 /\ MalformedJson(out)

\* C9, as claimed: every invocation of an endpoint method performs exactly
\* one transport request, whatever the outcome, and every failure (transport
\* failure, status >= 400, undecodable JSON) is raised to the caller as a
\* DariError: none is retried and none is swallowed. Refuted by a call whose
\* session.request raises an exception that is not a RequestException: the
\* caller gets that exception, not a DariError.
C9_OneRequestPerInvocation ==
    /\ pc = "awaiting" => requests = 1
    /\ Finished =>
          /\ requests = 1
          /\ returned.kind \in {"return", "raise"}
          /\ IsFailure(response) <=> returned.kind = "raise"
          /\ returned.kind = "raise" => returned.exc = "DariError"

\* The response is a success without content.
NoContent(resp) == resp.status_code = 204 \/ resp.content = ""

\* C10, as claimed: the dispatcher classifies the outcome in a fixed order,
\* and exactly one case applies: (1) a transport failure raises a DariError
\* with the transport error's message and neither status code nor response;
\* (2) otherwise a status >= 400 raises a DariError with the status code and
\* the response, also for an empty body and a Content-Type that is not JSON;
\* (3) otherwise status 204 or an empty body returns None; (4) otherwise a
\* JSON Content-Type yields the decoded value or the decode error; (5)
\* otherwise the body text is returned. Nothing else is raised. Refuted by a
\* call on a client built with timeout=0, which ends in the ValueError of
\* the transport, and by a transport that raises an OSError.
C10_ClassificationOrder ==
    Finished =>
        IF response.kind = "exception"
        THEN /\ result.kind = "raise" /\ result.exc = "DariError"
             /\ result.message = response.message
             /\ result.status_code = None
             /\ result.response = None
        ELSE IF response.status_code >= 400
        THEN /\ result.kind = "raise" /\ result.exc = "DariError"
             /\ result.status_code = PInt(response.status_code)
             /\ result.response = response
        ELSE IF NoContent(response)
        THEN /\ result.kind = "return"
             /\ result.value = None
        ELSE IF DeclaresJson(response)
        THEN IF JsonLoads(response.content).ok
             THEN /\ result.kind = "return"
                  /\ result.value = JsonLoads(response.content).value
             ELSE /\ result.kind = "raise" /\ result.exc = "DariError"
                  /\ result.message = InvalidJsonMessage
                  /\ result.status_code = PInt(response.status_code)
                  /\ result.response = response
        ELSE /\ result.kind = "return"
             /\ result.value = PStr(response.content)

(***************************************************************************)
(* Properties of the header assembly.                                      *)
(***************************************************************************)
\* The header overrides of the invocation in progress, as a mapping.
Overrides == IF call.headers = None THEN EmptyDict ELSE call.headers.v

\* The default set of the client, without X-API-Key when the invocation's
\* auth flag is false.
DefaultsSent ==
    [k \in {"X-API-Key", "User-Agent", "Accept"} \ (IF call.require_api_key THEN {} ELSE {"X-API-Key"}) |->
        CASE k = "X-API-Key" -> self.api_key
          [] k = "User-Agent" -> "dari-python/" \o Version
          [] k = "Accept" -> "application/json"]

\* C11: the headers of every request are the default set {X-API-Key,
\* User-Agent, Accept: application/json}, minus X-API-Key when the auth flag
\* is false, overlaid with the caller's header overrides, which win over
\* every default of the same name; Content-Type is set to application/json
\* if and only if a JSON body is present (not None, an empty mapping
\* included) and the caller gave no Content-Type override, and is otherwise
\* as the caller gave it or absent.
C11_HeaderAssembly ==
    pc = "awaiting" =>
        /\ DOMAIN inflight.headers =
              DOMAIN DefaultsSent \cup DOMAIN Overrides
              \cup (IF inflight.json # None THEN {"Content-Type"} ELSE {})
        /\ \A k \in DOMAIN Overrides : inflight.headers[k] = Overrides[k]
        /\ \A k \in DOMAIN DefaultsSent \ DOMAIN Overrides : inflight.headers[k] = DefaultsSent[k]
        /\ "Content-Type" \notin DOMAIN Overrides =>
              /\ ("Content-Type" \in DOMAIN inflight.headers) <=> (inflight.json # None)
              /\ inflight.json # None => inflight.headers["Content-Type"] = "application/json"

\* A request with an empty JSON body, the auth flag false and overrides for
\* X-API-Key and Content-Type is in flight: both headers are the caller's.
C11_Witness ==
    /\ pc = "awaiting"
    /\ call.name = "_request"
    /\ ~call.require_api_key
    /\ inflight.json = PDict(EmptyDict)
    /\ call.headers = PDict(("X-API-Key" :> "other-key") @@ ("Content-Type" :> "application/xml"))
    /\ inflight.headers = ("X-API-Key" :> "other-key") @@ ("Content-Type" :> "application/xml")
                          @@ ("User-Agent" :> ("dari-python/" \o Version)) @@ ("Accept" :> "application/json")

====
